---- MODULE Spec2Model ----
(***************************************************************************)
(* Model of the key-binding engine of rwm: the KeySequence parser          *)
(* (keybind.rs), the keysym -> keycode resolution (keyboard.rs), the       *)
(* binding registry (config.rs, keybind.rs) and the event dispatcher with  *)
(* its grab / ungrab passes (main.rs).                                     *)
(*                                                                         *)
(* A string is a sequence of one-character strings.  A modifier mask is    *)
(* the set of the bit positions that are set in it.                        *)
(***************************************************************************)
EXTENDS Integers, Sequences, FiniteSets, TLC

VARIABLES
    value,        \* the &str handed to KeySequence::try_from
    parsed,       \* its Result, or NotParsed before the call
    mapping,      \* the GetKeyboardMappingReply handed to keysym_to_keycodes
    wanted,       \* the keysym handed to keysym_to_keycodes
    resolved,     \* its Vec<Keycode> (keycodes), once called (done)
    pc,           \* where App is: "start", "wait", "panicked", "exited"
    keybinds,     \* App.config.keybinds
    keyboard,     \* App.keyboard
    server,       \* the X server's current keymap
    grabs,        \* the passive grabs the server holds on the root window
    lastEvent,    \* the event the dispatcher handled last
    requests,     \* what the last handler sent to the server, in order
    executed      \* the commands the last handler executed, in order

parseVars == <<value, parsed>>
resolveVars == <<mapping, wanted, resolved>>
appVars == <<pc, keybinds, keyboard, server, grabs, lastEvent, requests, executed>>
vars == <<value, parsed, mapping, wanted, resolved,
          pc, keybinds, keyboard, server, grabs, lastEvent, requests, executed>>

----------------------------------------------------------------------------
(* Bounds *)

MaxTokens == 3      \* dash-separated tokens in a parsed string
MaxBinds == 2       \* bindings in the registry
MaxKeycode == 9     \* setup.max_keycode(); min_keycode is MinKeycode
MaxCols == 2        \* keysyms_per_keycode of a mapping reply

----------------------------------------------------------------------------
(* Modifier bits: xcb::x::KeyButMask / xcb::x::ModMask *)

SHIFT == 0
LOCK == 1
CONTROL == 2
MOD2 == 4
MOD3 == 5
MOD4 == 6
MinKeycode == 8

\* the bits a ModMask can hold (Shift, Lock, Control, Mod1..Mod5)
ModMaskBits == 0..7
\* the bits a KeyButMask can hold (the above and Button1..Button5)
KeyButMaskBits == 0..12

NoSymbol == "NoSymbol"

----------------------------------------------------------------------------
(* keybind.rs: KeySequence::try_from *)

Uppercase == {"A", "B", "C", "D", "E", "F", "G", "H", "I", "J", "K", "L", "M",
              "N", "O", "P", "Q", "R", "S", "T", "U", "V", "W", "X", "Y", "Z"}

\* xkbcommon::xkb::keysym_from_name(part, KEYSYM_NO_FLAGS): the name table,
\* NoSymbol for a name it does not hold
keysym_from_name(part) ==
    CASE part = <<"x">> -> "x"
      [] part = <<"s">> -> "s"
      [] part = <<"d">> -> "d"
      [] part = <<"z">> -> "z"
      [] part = <<"F", "1">> -> "F1"
      [] OTHER -> NoSymbol

\* value.split('-'): the pieces between the dashes, empty pieces kept
RECURSIVE SplitFrom(_, _, _)
SplitFrom(s, i, cur) ==
    IF i > Len(s) THEN <<cur>>
    ELSE IF s[i] = "-" THEN <<cur>> \o SplitFrom(s, i + 1, <<>>)
    ELSE SplitFrom(s, i + 1, Append(cur, s[i]))

Split(s) == SplitFrom(s, 1, <<>>)

Err(msg) == [ok |-> FALSE, err |-> msg]
Ok(ks, mods) == [ok |-> TRUE, keysym |-> ks, modifiers |-> mods]

\* the match on the modifier letter
ModifierOf(c) ==
    CASE c = "S" -> {SHIFT}
      [] c = "C" -> {CONTROL}
      [] c = "M" -> {MOD4}
      [] OTHER -> {}

IsModifierLetter(c) == c \in {"S", "C", "M"}

\* part.len() == 1 && the character is_uppercase()
IsModifierToken_AnyCase(part) == Len(part) = 1

IsModifierToken(part) == Len(part) = 1 /\ part[1] \in Uppercase

\* the for loop over the parts, with its early returns; keysym is <<>> for
\* None and <<k>> for Some(k)
RECURSIVE ParseParts(_, _, _, _)
ParseParts(parts, i, keysym, modifiers) ==
    IF i > Len(parts) THEN
        IF keysym = <<>> THEN Err("KeySequence is missing a keysym")
        ELSE Ok(keysym[1], modifiers)
    ELSE IF IsModifierToken(parts[i]) THEN
        IF IsModifierLetter(parts[i][1])
        THEN ParseParts(parts, i + 1, keysym, modifiers \cup ModifierOf(parts[i][1]))
        ELSE Err("Invalid modifier")
    ELSE IF keysym_from_name(parts[i]) = NoSymbol
        THEN Err("Unrecognized keysym")
        ELSE ParseParts(parts, i + 1, <<keysym_from_name(parts[i])>>, modifiers)

try_from(s) == ParseParts(Split(s), 1, <<>>, {})

----------------------------------------------------------------------------
(* The strings the parser is run on *)

Tokens == {<<"S">>, <<"C">>, <<"M">>, <<"X">>, <<"x">>, <<"s">>, <<"d">>,
           <<"z">>, <<"?">>, <<>>, <<"F", "1">>, <<"C", "S">>}

RECURSIVE Join(_)
Join(ts) ==
    IF Len(ts) = 0 THEN <<>>
    ELSE IF Len(ts) = 1 THEN ts[1]
    ELSE ts[1] \o <<"-">> \o Join(Tail(ts))

TokenLists == UNION {[1..n -> Tokens] : n \in 1..MaxTokens}

NotParsed == [ok |-> FALSE, err |-> "not parsed"]
NotResolved == [done |-> FALSE, keycodes |-> <<>>]

----------------------------------------------------------------------------
(* keyboard.rs: Keyboard::keysym_to_keycodes *)

\* keysyms.get(i) == Some(keysym), the slice being indexed from 0
GetIs(keysyms, i, keysym) == i < Len(keysyms) /\ keysyms[i + 1] = keysym

\* the inner loop: for keycode in min_keycode..=max_keycode, at one column
RECURSIVE ScanKeycodes(_, _, _, _)
ScanKeycodes(reply, keysym, col, keycode) ==
    IF keycode > MaxKeycode THEN <<>>
    ELSE LET keysym_group == (keycode - MinKeycode) * reply.per
         IN (IF GetIs(reply.keysyms, keysym_group + col, keysym)
             THEN <<keycode>> ELSE <<>>)
            \o ScanKeycodes(reply, keysym, col, keycode + 1)

\* the outer loop: for col in 0..per
RECURSIVE ScanCols(_, _, _)
ScanCols(reply, keysym, col) ==
    IF col >= reply.per THEN <<>>
    ELSE ScanKeycodes(reply, keysym, col, MinKeycode)
         \o ScanCols(reply, keysym, col + 1)

\* Vec::dedup: removes consecutive repeated elements
RECURSIVE dedup(_)
dedup(v) ==
    IF Len(v) <= 1 THEN v
    ELSE IF v[1] = v[2] THEN dedup(Tail(v))
    ELSE <<v[1]>> \o dedup(Tail(v))

keysym_to_keycodes(reply, keysym) == dedup(ScanCols(reply, keysym, 0))

\* GetKeyboardMapping{first_keycode: min, count: max - min + 1}: the reply
\* holds count * keysyms_per_keycode keysyms
KeycodeCount == MaxKeycode - MinKeycode + 1
Keycodes == MinKeycode..MaxKeycode

\* the keycodes of which at least one column maps to the keysym
Carriers(reply, keysym) ==
    {k \in Keycodes : \E col \in 0..(reply.per - 1) :
        reply.keysyms[(k - MinKeycode) * reply.per + col + 1] = keysym}

ReplyKeysyms == {"d", "x", NoSymbol}

Replies ==
    UNION {{[per |-> p, keysyms |-> ks] : ks \in [1..(KeycodeCount * p) -> ReplyKeysyms]}
           : p \in 0..MaxCols}

----------------------------------------------------------------------------
(* keybind.rs, config.rs: the binding registry *)

\* Keybind::new
Keybind_new(key_sequence, command) ==
    [key_sequence |-> key_sequence, keycodes |-> <<>>, command |-> command]

\* Config::add_keybind
add_keybind(config, keybind) == Append(config, keybind)

\* load_config over a list of binding strings: each is parsed and unwrapped,
\* the command of the i-th binding is named i
RECURSIVE load_config(_, _)
load_config(strs, n) ==
    IF n = 0 THEN <<>>
    ELSE add_keybind(load_config(strs, n - 1),
                     Keybind_new([keysym |-> try_from(strs[n]).keysym,
                                  modifiers |-> try_from(strs[n]).modifiers], n))

\* Vec::contains
RECURSIVE Contains(_, _)
Contains(v, x) ==
    IF Len(v) = 0 THEN FALSE
    ELSE IF v[1] = x THEN TRUE
    ELSE Contains(Tail(v), x)

\* Keybind::matches
matches_subset(keybind, keycode, modifiers) ==
    Contains(keybind.keycodes, keycode) /\ keybind.key_sequence.modifiers \subseteq modifiers

matches(keybind, keycode, modifiers) ==
    Contains(keybind.keycodes, keycode) /\ keybind.key_sequence.modifiers = modifiers

\* Keybind::update_keycodes
update_keycodes_Discard(keybind, keycodes) == keybind

update_keycodes_append(keybind, keycodes) ==
    [keybind EXCEPT !.keycodes = @ \o keycodes]

update_keycodes(keybind, keycodes) == [keybind EXCEPT !.keycodes = keycodes]

----------------------------------------------------------------------------
(* keyboard.rs: Keyboard *)

CoreKbdId == 3
\* 0xffffffff, what mod_get_index returns for a name the keymap does not hold;
\* written as the same 32 bits read as a signed number
XKB_MOD_INVALID == -1
MOD_NAME_NUM == "Mod2"

\* xkb::x11::keymap_new_from_device: the server's keymap (named by srv),
\* compiled
keymap_new_from_device(srv, device_id) == [device_id |-> device_id, map |-> srv]

\* xkb::x11::state_new_from_device: a state bound to the keymap, holding the
\* modifier / group components the server reports
state_new_from_device(keymap, device_id, components) ==
    [keymap |-> keymap, device_id |-> device_id, components |-> components]

create_new_xkb_state(srv, device_id, components) ==
    LET keymap == keymap_new_from_device(srv, device_id)
    IN <<keymap, state_new_from_device(keymap, device_id, components)>>

\* Keyboard::new
Keyboard_new(srv, components) ==
    LET pair == create_new_xkb_state(srv, CoreKbdId, components)
    IN [xkb_device_id |-> CoreKbdId, xkb_keymap |-> pair[1], xkb_state |-> pair[2]]

\* Keyboard::update_keymaps
update_keymaps_KeymapOnly(kb, srv, components) ==
    LET pair == create_new_xkb_state(srv, kb.xkb_device_id, components)
    IN [kb EXCEPT !.xkb_keymap = pair[1]]

update_keymaps(kb, srv, components) ==
    LET pair == create_new_xkb_state(srv, kb.xkb_device_id, components)
    IN [kb EXCEPT !.xkb_keymap = pair[1], !.xkb_state = pair[2]]

\* Keyboard::update_state: xkb_state.update_mask with the event's fields
update_state_Ignored(kb, event_components) == kb

update_state(kb, event_components) ==
    [kb EXCEPT !.xkb_state.components = event_components]

----------------------------------------------------------------------------
(* The X server: keymaps, passive grabs *)

GRAB_ANY == 0
MOD_ANY == 15

Root == "root"

Cell(i) == [keycode |-> MinKeycode + ((i - 1) \div MaxCols), col |-> (i - 1) % MaxCols]

\* d on the first keycode, x on the last, both in column 0
PlainLayout ==
    [i \in 1..(KeycodeCount * MaxCols) |->
        IF Cell(i).col # 0 THEN NoSymbol
        ELSE IF Cell(i).keycode = MinKeycode THEN "d"
        ELSE IF Cell(i).keycode = MaxKeycode THEN "x"
        ELSE NoSymbol]

\* d on every keycode, in the first and in the last column (two groups)
GroupsLayout ==
    [i \in 1..(KeycodeCount * MaxCols) |->
        IF Cell(i).col \in {0, MaxCols - 1} THEN "d" ELSE NoSymbol]

\* d in the last column of the first keycode and in column 0 of the last
LayeredLayout ==
    [i \in 1..(KeycodeCount * MaxCols) |->
        IF Cell(i).keycode = MinKeycode /\ Cell(i).col = MaxCols - 1 THEN "d"
        ELSE IF Cell(i).keycode = MaxKeycode /\ Cell(i).col = 0 THEN "d"
        ELSE IF Cell(i).keycode = MinKeycode /\ Cell(i).col = 0 THEN "x"
        ELSE NoSymbol]

ServerKeymap(layout, numlock) ==
    [per |-> MaxCols, keysyms |-> layout, mods |-> [Mod2 |-> numlock]]

\* the keymaps the server can hold, by name
ServerKeymaps == {"plain", "groups", "layered", "nonum"}

Keymap(name) ==
    CASE name = "plain" -> ServerKeymap(PlainLayout, MOD2)
      [] name = "groups" -> ServerKeymap(GroupsLayout, MOD3)
      [] name = "layered" -> ServerKeymap(LayeredLayout, MOD2)
      [] name = "nonum" -> ServerKeymap(PlainLayout, XKB_MOD_INVALID)

\* Keyboard::get_mod_index
get_mod_index(kb, name) == Keymap(kb.xkb_keymap.map).mods[name]

\* the modifier / group components of an xkb state
Components(locked) ==
    [base_mods |-> {}, latched_mods |-> {}, locked_mods |-> locked,
     base_group |-> 0, latched_group |-> 0, locked_group |-> 0]

XkbComponents == {Components({}), Components({LOCK})}

\* the reply to GetKeyboardMapping
GetKeyboardMapping(srv) == [per |-> Keymap(srv).per, keysyms |-> Keymap(srv).keysyms]

\* a request as the log keeps it: what was sent, and whether the server
\* accepted it
Request(op, key, modifiers) ==
    [op |-> op, grab_window |-> Root, key |-> key, modifiers |-> modifiers,
     accepted |-> TRUE]

KeymapReq == Request("keymap_new_from_device", GRAB_ANY, {})
StateReq == Request("state_new_from_device", GRAB_ANY, {})
MappingReq == Request("GetKeyboardMapping", GRAB_ANY, {})
UngrabKeyReq(key, modifiers) == Request("UngrabKey", key, modifiers)
GrabKeyReq(key, modifiers) == Request("GrabKey", key, modifiers)

\* the request check_request(cookie) returns an error for
Rejected(req) == [req EXCEPT !.accepted = FALSE]

\* the server's handling of UngrabKey: AnyKey / AnyModifier are wildcards
ServerUngrab(held, req) ==
    {g \in held : ~(/\ (req.key = GRAB_ANY \/ g.key = req.key)
                    /\ (req.modifiers = {MOD_ANY} \/ g.modifiers = req.modifiers))}

\* the server's handling of the accepted GrabKey requests of a sequence
ServerGrab(held, reqs) ==
    held \cup {[key |-> reqs[i].key, modifiers |-> reqs[i].modifiers] :
                 i \in {j \in 1..Len(reqs) : reqs[j].op = "GrabKey"}}

----------------------------------------------------------------------------
(* main.rs: App *)

\* ModMask::from_bits(1 << numlock_index) / KeyButMask::from_bits(..): None
\* when the bit is not one of the mask type
from_bits(index, bits) == IF index \in bits THEN <<{index}>> ELSE <<>>

\* ModMask::from_bits_truncate
from_bits_truncate(mask) == mask \cap ModMaskBits

\* App::ungrab_keybinds: the request it sends
ungrab_keybinds_OneKey == UngrabKeyReq(MinKeycode, {MOD_ANY})

ungrab_keybinds == UngrabKeyReq(GRAB_ANY, {MOD_ANY})

\* the four modifier sets grabbed for one keycode
ModifierVariants(mask, numlock_mask) ==
    <<mask, mask \cup numlock_mask, mask \cup {LOCK}, mask \cup {LOCK} \cup numlock_mask>>

\* the two inner loops of grab_keybinds: for keycode, for modifiers
RECURSIVE GrabRequests(_, _, _)
GrabRequests(keycodes, mask, numlock_mask) ==
    IF Len(keycodes) = 0 THEN <<>>
    ELSE [v \in 1..4 |-> GrabKeyReq(keycodes[1], ModifierVariants(mask, numlock_mask)[v])]
         \o GrabRequests(Tail(keycodes), mask, numlock_mask)

\* the loop of grab_keybinds over the bindings from the i-th on; sent is the
\* number of GrabKey requests sent so far, and the server rejects the
\* rejectAt-th one (none when rejectAt is 0), which panics
RECURSIVE GrabFrom_SkipRejected(_, _, _, _, _, _)
GrabFrom_SkipRejected(kbs, i, numlock_mask, srv, rejectAt, sent) ==
    IF i > Len(kbs) THEN [keybinds |-> kbs, requests |-> <<>>, panicked |-> FALSE]
    ELSE LET mask == from_bits_truncate(kbs[i].key_sequence.modifiers)
             keycodes == keysym_to_keycodes(GetKeyboardMapping(srv),
                                            kbs[i].key_sequence.keysym)
             reqs == GrabRequests(keycodes, mask, numlock_mask)
             rest == GrabFrom_SkipRejected(
                         [kbs EXCEPT ![i] = update_keycodes(kbs[i], keycodes)],
                         i + 1, numlock_mask, srv, rejectAt, sent + Len(reqs))
         IN [rest EXCEPT !.requests =
                <<MappingReq>>
                \o [v \in 1..Len(reqs) |->
                       IF sent + v = rejectAt THEN Rejected(reqs[v]) ELSE reqs[v]]
                \o @]

RECURSIVE GrabFrom(_, _, _, _, _, _)
GrabFrom(kbs, i, numlock_mask, srv, rejectAt, sent) ==
    IF i > Len(kbs) THEN [keybinds |-> kbs, requests |-> <<>>, panicked |-> FALSE]
    ELSE LET mask == from_bits_truncate(kbs[i].key_sequence.modifiers)
             keycodes == keysym_to_keycodes(GetKeyboardMapping(srv),
                                            kbs[i].key_sequence.keysym)
             reqs == GrabRequests(keycodes, mask, numlock_mask)
         IN IF rejectAt > sent /\ rejectAt <= sent + Len(reqs)
            THEN [keybinds |-> kbs,
                  requests |-> <<MappingReq>> \o SubSeq(reqs, 1, rejectAt - sent - 1)
                               \o <<Rejected(reqs[rejectAt - sent])>>,
                  panicked |-> TRUE]
            ELSE LET rest == GrabFrom([kbs EXCEPT ![i] = update_keycodes(kbs[i], keycodes)],
                                      i + 1, numlock_mask, srv, rejectAt, sent + Len(reqs))
                 IN [rest EXCEPT !.requests = <<MappingReq>> \o reqs \o @]

\* App::grab_keybinds
grab_keybinds(kbs, kb, srv, rejectAt) ==
    LET numlock_mask == from_bits(get_mod_index(kb, MOD_NAME_NUM), ModMaskBits)
    IN IF numlock_mask = <<>>
       THEN [keybinds |-> kbs, requests |-> <<>>, panicked |-> TRUE]
       ELSE GrabFrom(kbs, 1, numlock_mask[1], srv, rejectAt, 0)

IsAccepted(req) == req.accepted

\* the requests of a pass the server accepted
Accepted(pass) == SelectSeq(pass.requests, IsAccepted)

\* the number of GrabKey requests of a pass nothing is rejected in
GrabCount(kbs, kb, srv) ==
    LET reqs == grab_keybinds(kbs, kb, srv, 0).requests
    IN Cardinality({i \in 1..Len(reqs) : reqs[i].op = "GrabKey"})

\* handle_xkb_event, NewKeyboardNotify with KEYCODES and MapNotify: the calls
\* made, in order
RemapCalls_GrabFirst == <<"ungrab_keybinds", "grab_keybinds", "update_keymaps">>

RemapCalls == <<"update_keymaps", "ungrab_keybinds", "grab_keybinds">>

\* one call of the handler, on the state the calls before it left
Call(ctx, name, components, rejectAt) ==
    IF ctx.panicked THEN ctx
    ELSE IF name = "update_keymaps" THEN
        [ctx EXCEPT !.keyboard = update_keymaps(@, ctx.server, components),
                    !.requests = @ \o <<KeymapReq, StateReq>>]
    ELSE IF name = "ungrab_keybinds" THEN
        [ctx EXCEPT !.grabs = ServerUngrab(@, ungrab_keybinds),
                    !.requests = @ \o <<ungrab_keybinds>>]
    ELSE LET pass == grab_keybinds(ctx.keybinds, ctx.keyboard, ctx.server, rejectAt)
         IN [ctx EXCEPT !.keybinds = pass.keybinds,
                        !.grabs = ServerGrab(@, Accepted(pass)),
                        !.requests = @ \o pass.requests,
                        !.panicked = pass.panicked]

RECURSIVE Calls(_, _, _, _)
Calls(ctx, names, components, rejectAt) ==
    IF Len(names) = 0 THEN ctx
    ELSE Calls(Call(ctx, names[1], components, rejectAt), Tail(names), components, rejectAt)

Context ==
    [keyboard |-> keyboard, keybinds |-> keybinds, server |-> server, grabs |-> grabs,
     requests |-> <<>>, panicked |-> FALSE]

\* the for loop of the KeyPress arm from the i-th binding on: the commands
\* executed, each with the result execute() returned
RECURSIVE ExecuteLoop_NoBreak(_, _, _, _, _)
ExecuteLoop_NoBreak(kbs, i, keycode, modmask, spawned) ==
    IF i > Len(kbs) THEN <<>>
    ELSE IF matches(kbs[i], keycode, modmask)
    THEN <<[command |-> kbs[i].command, ok |-> spawned]>>
         \o (IF spawned THEN ExecuteLoop_NoBreak(kbs, i + 1, keycode, modmask, spawned)
             ELSE <<>>)
    ELSE ExecuteLoop_NoBreak(kbs, i + 1, keycode, modmask, spawned)

RECURSIVE ExecuteLoop(_, _, _, _, _)
ExecuteLoop(kbs, i, keycode, modmask, spawned) ==
    IF i > Len(kbs) THEN <<>>
    ELSE IF matches(kbs[i], keycode, modmask)
    THEN <<[command |-> kbs[i].command, ok |-> spawned]>>
    ELSE ExecuteLoop(kbs, i + 1, keycode, modmask, spawned)

\* event.state() - (KeyButMask::LOCK | numlock_mask)
Normalize_FixedMod2(state, numlock_mask) == state \ {LOCK, MOD2}

Normalize_KeepLock(state, numlock_mask) == state \ numlock_mask

Normalize(state, numlock_mask) == state \ ({LOCK} \cup numlock_mask)

----------------------------------------------------------------------------
(* The dispatcher: App::run and the handlers *)

ConfigStrings == {<<"M", "-", "d">>, <<"C", "-", "d">>}

\* the binding lists load_config returns from: every string parses
Configs ==
    {cfg \in UNION {[1..n -> ConfigStrings] : n \in 0..MaxBinds} :
        \A i \in 1..Len(cfg) : try_from(cfg[i]).ok}

\* the modifier state a KeyPress event can carry
EventStates ==
    {base \cup locks : base \in {{}, {CONTROL}, {CONTROL, SHIFT}, {MOD4}},
                       locks \in SUBSET {LOCK, MOD2, MOD3}}

ChangedSets == {{"KEYCODES"}, {"GEOMETRY"}, {"KEYCODES", "GEOMETRY"}}

Event(type) ==
    [type |-> type, after |-> "none", changed |-> {}, detail |-> GRAB_ANY, state |-> {},
     components |-> Components({})]

IsRemap(e) ==
    \/ e.type = "MapNotify"
    \/ e.type = "NewKeyboardNotify" /\ "KEYCODES" \in e.changed

\* what is remembered of an event once the next one is awaited
Kind(e) == IF IsRemap(e) \/ e.type = "Remap" THEN "Remap" ELSE "none"

Init ==
    /\ value = <<>>
    /\ parsed = NotParsed
    /\ mapping = [per |-> 0, keysyms |-> <<>>]
    /\ wanted = NoSymbol
    /\ resolved = NotResolved
    /\ pc = "start"
    /\ \E cfg \in Configs : keybinds = load_config(cfg, Len(cfg))
    /\ server \in ServerKeymaps
    /\ \E c \in XkbComponents : keyboard = Keyboard_new(server, c)
    /\ grabs = {}
    /\ lastEvent = Event("none")
    /\ requests = <<>>
    /\ executed = <<>>

\* App::run up to the loop: the first grab pass
Run ==
    /\ pc = "start"
    /\ \E rejectAt \in 0..GrabCount(keybinds, keyboard, server) :
         \E r \in {Call(Context, "grab_keybinds", Components({}), rejectAt)} :
            /\ keybinds' = r.keybinds
            /\ grabs' = r.grabs
            /\ requests' = r.requests
            /\ pc' = IF r.panicked THEN "panicked" ELSE "loop"
    /\ lastEvent' = [Event("Startup") EXCEPT !.after = Kind(lastEvent)]
    /\ executed' = <<>>
    /\ UNCHANGED <<keyboard, server, parseVars, resolveVars>>

\* the top of the loop: self.conn.wait_for_event() is called and blocks
WaitForEvent ==
    /\ pc = "loop"
    /\ pc' = "wait"
    /\ lastEvent' = Event(Kind(lastEvent))
    /\ requests' = <<>>
    /\ executed' = <<>>
    /\ UNCHANGED <<keybinds, keyboard, server, grabs, parseVars, resolveVars>>

\* wait_for_event returns Err: the loop is left and run returns
WaitError ==
    /\ pc = "wait"
    /\ pc' = "exited"
    /\ UNCHANGED <<keybinds, keyboard, server, grabs, lastEvent, requests, executed,
                   parseVars, resolveVars>>

\* handle_x11_event, Event::KeyPress
HandleKeyPress ==
    /\ pc = "wait"
    /\ \E keycode \in Keycodes, state \in EventStates, spawned \in BOOLEAN :
         \E numlock_mask \in {from_bits(get_mod_index(keyboard, MOD_NAME_NUM), KeyButMaskBits)} :
         \E ran \in {IF numlock_mask = <<>> THEN <<>>
                     ELSE ExecuteLoop(keybinds, 1, keycode,
                                      Normalize(state, numlock_mask[1]), spawned)} :
            /\ lastEvent' = [Event("KeyPress") EXCEPT !.after = Kind(lastEvent),
                                                      !.detail = keycode, !.state = state]
            /\ executed' = ran
            /\ pc' = IF numlock_mask = <<>> \/ \E i \in 1..Len(ran) : ~ran[i].ok
                     THEN "panicked" ELSE "loop"
    /\ requests' = <<>>
    /\ UNCHANGED <<keybinds, keyboard, server, grabs, parseVars, resolveVars>>

\* handle_x11_event, Event::MappingNotify: panic!("Should we handle this?")
HandleMappingNotify ==
    /\ pc = "wait"
    /\ pc' = "panicked"
    /\ lastEvent' = [Event("MappingNotify") EXCEPT !.after = Kind(lastEvent)]
    /\ requests' = <<>>
    /\ executed' = <<>>
    /\ UNCHANGED <<keybinds, keyboard, server, grabs, parseVars, resolveVars>>

\* the body shared by the NewKeyboardNotify (with KEYCODES) and MapNotify arms
Remap(event) ==
    \E c \in XkbComponents :
      \E rejectAt \in 0..GrabCount(keybinds, update_keymaps(keyboard, server, c), server) :
        \E r \in {Calls(Context, RemapCalls, c, rejectAt)} :
           /\ keyboard' = r.keyboard
           /\ keybinds' = r.keybinds
           /\ grabs' = r.grabs
           /\ requests' = r.requests
           /\ pc' = IF r.panicked THEN "panicked" ELSE "loop"
           /\ lastEvent' = [event EXCEPT !.after = Kind(lastEvent)]
           /\ executed' = <<>>
           /\ UNCHANGED <<server, parseVars, resolveVars>>

\* event.changed().contains(xcb::xkb::NknDetail::KEYCODES)
contains_KEYCODES_AnyChange(changed) == changed # {}

contains_KEYCODES(changed) == "KEYCODES" \in changed

\* handle_xkb_event, Event::NewKeyboardNotify
HandleNewKeyboardNotify ==
    /\ pc = "wait"
    /\ \E changed \in ChangedSets :
         LET event == [Event("NewKeyboardNotify") EXCEPT !.changed = changed]
         IN IF contains_KEYCODES(changed)
            THEN Remap(event)
            ELSE /\ pc' = "loop"
                 /\ lastEvent' = [event EXCEPT !.after = Kind(lastEvent)]
                 /\ requests' = <<>>
                 /\ executed' = <<>>
                 /\ UNCHANGED <<keybinds, keyboard, server, grabs, parseVars, resolveVars>>

\* handle_xkb_event, Event::MapNotify
HandleMapNotify ==
    /\ pc = "wait"
    /\ Remap(Event("MapNotify"))

\* handle_xkb_event, Event::StateNotify
HandleStateNotify ==
    /\ pc = "wait"
    /\ \E c \in XkbComponents :
         /\ keyboard' = update_state(keyboard, c)
         /\ lastEvent' = [Event("StateNotify") EXCEPT !.after = Kind(lastEvent),
                                                         !.components = c]
    /\ pc' = "loop"
    /\ requests' = <<>>
    /\ executed' = <<>>
    /\ UNCHANGED <<keybinds, server, grabs, parseVars, resolveVars>>

\* every other event (other core events, other xkb events, RandR, Unknown):
\* nothing of the key-binding state is touched
HandleOtherEvent ==
    /\ pc = "wait"
    /\ pc' = "loop"
    /\ lastEvent' = [Event("Other") EXCEPT !.after = Kind(lastEvent)]
    /\ requests' = <<>>
    /\ executed' = <<>>
    /\ UNCHANGED <<keybinds, keyboard, server, grabs, parseVars, resolveVars>>

\* the server's keymap is changed (by another client, or by a new device)
ServerChangesKeymap ==
    /\ pc \in {"start", "wait"}
    /\ server' \in ServerKeymaps \ {server}
    /\ UNCHANGED <<pc, keybinds, keyboard, grabs, lastEvent, requests, executed,
                   parseVars, resolveVars>>

Next ==
    \/ Run
    \/ WaitForEvent
    \/ WaitError
    \/ HandleKeyPress
    \/ HandleMappingNotify
    \/ HandleNewKeyboardNotify
    \/ HandleMapNotify
    \/ HandleStateNotify
    \/ HandleOtherEvent
    \/ ServerChangesKeymap

Spec == Init /\ [][Next]_vars

----------------------------------------------------------------------------
(* The state of the dispatcher while a pure function is exercised *)

Idle ==
    /\ pc = "exited"
    /\ keybinds = <<>>
    /\ keyboard = [xkb_device_id |-> 0]
    /\ server = "plain"
    /\ grabs = {}
    /\ lastEvent = [type |-> "none"]
    /\ requests = <<>>
    /\ executed = <<>>

(* KeySequence::try_from applied to a string *)

InitParse ==
    /\ value \in {Join(ts) : ts \in TokenLists}
    /\ parsed = NotParsed
    /\ mapping = [per |-> 0, keysyms |-> <<>>]
    /\ wanted = NoSymbol
    /\ resolved = NotResolved
    /\ Idle

TryFrom ==
    /\ parsed = NotParsed
    /\ parsed' = try_from(value)
    /\ UNCHANGED <<value, resolveVars, appVars>>

NextParse == TryFrom

SpecParse == InitParse /\ [][NextParse]_vars

(* keysym_to_keycodes applied to a mapping reply *)

InitResolve ==
    /\ value = <<>>
    /\ parsed = NotParsed
    /\ mapping \in Replies
    /\ wanted \in {"d", "x"}
    /\ resolved = NotResolved
    /\ Idle

Resolve ==
    /\ resolved = NotResolved
    /\ resolved' = [done |-> TRUE, keycodes |-> keysym_to_keycodes(mapping, wanted)]
    /\ UNCHANGED <<mapping, wanted, parseVars, appVars>>

NextResolve == Resolve

SpecResolve == InitResolve /\ [][NextResolve]_vars
----------------------------------------------------------------------------
(* Properties of the dispatcher (Spec) *)

\* a handler has run to its end, or has panicked on the way
Returned == pc = "loop"
Panicked == pc = "panicked"

AfterRemap == (Returned \/ Panicked) /\ IsRemap(lastEvent)
AfterKeyPress == (Returned \/ Panicked) /\ lastEvent.type = "KeyPress"

Positions(op) == {i \in 1..Len(requests) : requests[i].op = op}

\* C1 (as amended): on a NewKeyboardNotify whose change set includes KEYCODES
\* and on a MapNotify the dispatcher performs update_keymaps, then the
\* wildcard UngrabKey, then grab_all: the rebuild comes first, the ungrab
\* second, and every request of the grab pass after both.
C1_RebuildUngrabGrab ==
    AfterRemap =>
        /\ Len(requests) >= 3
        /\ requests[1] = KeymapReq
        /\ requests[2] = StateReq
        /\ requests[3] = UngrabKeyReq(GRAB_ANY, {MOD_ANY})
        /\ \A i \in 4..Len(requests) : requests[i].op \in {"GetKeyboardMapping", "GrabKey"}
        /\ Returned => keyboard.xkb_keymap.map = server

\* C1 (as claimed): the rebuild happens after the ungrab request and before
\* the first GrabKey request of the pass.
C1_UngrabRebuildGrab ==
    AfterRemap /\ Returned =>
        \E u \in Positions("UngrabKey"), r \in Positions("keymap_new_from_device") :
            /\ u < r
            /\ \A g \in Positions("GrabKey") : r < g

C1_Witness ==
    /\ Returned
    /\ lastEvent.type = "NewKeyboardNotify"
    /\ Positions("GrabKey") # {}

\* C2: a KeyPress that matches a binding whose execute() returns an error
\* does not abort the dispatch loop: the dispatcher goes back to waiting.
C2_ExecuteErrorSurvived ==
    (AfterKeyPress /\ \E i \in 1..Len(executed) : ~executed[i].ok) => Returned

Cache(keybind) == {keybind.keycodes[i] : i \in 1..Len(keybind.keycodes)}

DeclaredMasks == SUBSET {SHIFT, CONTROL, MOD4}

\* the bit the keymap held by the dispatcher resolves NumLock to
NumLockBit == Keymap(keyboard.xkb_keymap.map).mods.Mod2

\* the event state with the Lock bit and the resolved NumLock bit cleared
Normalized == lastEvent.state \ {LOCK, NumLockBit}

\* C3: matches(keycode, mask) is true iff the cached keycode list holds the
\* keycode and the declared mask equals mask exactly; a binding declared for
\* {Control} matches neither {Control, Shift} nor {}; a binding the
\* dispatcher executes is one whose mask equals the normalized event state.
C3_MatchesExact ==
    /\ pc = "wait" =>
         \A i \in 1..Len(keybinds), k \in Keycodes :
            /\ \A m \in DeclaredMasks :
                 matches(keybinds[i], k, m)
                   <=> (k \in Cache(keybinds[i]) /\ keybinds[i].key_sequence.modifiers = m)
            /\ keybinds[i].key_sequence.modifiers = {CONTROL} =>
                 /\ ~matches(keybinds[i], k, {CONTROL, SHIFT})
                 /\ ~matches(keybinds[i], k, {})
    /\ AfterKeyPress =>
         \A e \in 1..Len(executed) :
            /\ keybinds[executed[e].command].key_sequence.modifiers = Normalized
            /\ lastEvent.detail \in Cache(keybinds[executed[e].command])

C3_Witness ==
    /\ Returned
    /\ lastEvent.type = "KeyPress"
    /\ lastEvent.state = {CONTROL, SHIFT}
    /\ executed = <<>>
    /\ \E i \in 1..Len(keybinds) :
          /\ keybinds[i].key_sequence.modifiers = {CONTROL}
          /\ lastEvent.detail \in Cache(keybinds[i])

\* the bindings that hold keycode k and are declared for mask m
Bound(k, m) ==
    {i \in 1..Len(keybinds) :
        k \in Cache(keybinds[i]) /\ keybinds[i].key_sequence.modifiers = m}

Lowest(S) == CHOOSE i \in S : \A j \in S : i <= j

\* C4: for a binding declared for M that holds keycode k, KeyPress events
\* with keycode k and state M, M+Lock, M+NumLock, M+Lock+NumLock (NumLock
\* the bit resolved from the keymap) all match it and are dispatched
\* identically: each executes one command, that of the first binding
\* declared for M that holds k.
C4_LockIndifference ==
    AfterKeyPress =>
        \A i \in 1..Len(keybinds) :
            LET M == keybinds[i].key_sequence.modifiers
            IN (/\ lastEvent.detail \in Cache(keybinds[i])
                /\ lastEvent.state \in {M, M \cup {LOCK}, M \cup {NumLockBit},
                                        M \cup {LOCK, NumLockBit}})
               => /\ Len(executed) = 1
                  /\ executed[1].command =
                        keybinds[Lowest(Bound(lastEvent.detail, M))].command

C4_Witness ==
    /\ Returned
    /\ lastEvent.type = "KeyPress"
    /\ lastEvent.state = {MOD4, LOCK, NumLockBit}
    /\ Len(executed) = 1
    /\ keybinds[executed[1].command].key_sequence.modifiers = {MOD4}

\* C5: a KeyPress executes at most one command, that of the lowest-index
\* binding that matches; of two bindings with the same KeySequence the one
\* registered later is never executed.
C5_FirstMatch ==
    /\ AfterKeyPress =>
         /\ Len(executed) <= 1
         /\ Bound(lastEvent.detail, Normalized) # {} =>
               /\ Len(executed) = 1
               /\ executed[1].command =
                     keybinds[Lowest(Bound(lastEvent.detail, Normalized))].command
         /\ Bound(lastEvent.detail, Normalized) = {} => executed = <<>>
    /\ \A e \in 1..Len(executed) :
          ~\E i \in 1..Len(keybinds) :
              /\ i < executed[e].command
              /\ keybinds[i].key_sequence = keybinds[executed[e].command].key_sequence

C5_Witness ==
    /\ Returned
    /\ lastEvent.type = "KeyPress"
    /\ lastEvent.after = "Remap"
    /\ Len(keybinds) >= 2
    /\ keybinds[1].key_sequence = keybinds[2].key_sequence
    /\ Len(executed) = 1
    /\ executed[1].command = keybinds[1].command

\* the GrabKey requests a pass owes for one binding: one per keycode that
\* carries the keysym and per lock variant
Owed(keybind) ==
    {[key |-> k, variant |-> v] :
        k \in Carriers(GetKeyboardMapping(server), keybind.key_sequence.keysym),
        v \in {"base", "NumLock", "Lock", "Lock+NumLock"}}

RECURSIVE OwedCount(_)
OwedCount(n) ==
    IF n = 0 THEN 0 ELSE Cardinality(Owed(keybinds[n])) + OwedCount(n - 1)

\* C6: a grab pass over N bindings each resolving to K keycodes issues
\* exactly N*K*4 GrabKey requests, one per (keycode, variant); ungrab_all
\* issues exactly one UngrabKey, with key Any and modifiers Any, on the root.
C6_GrabCompleteness ==
    /\ (Returned /\ (IsRemap(lastEvent) \/ lastEvent.type = "Startup")) =>
          Cardinality(Positions("GrabKey")) = OwedCount(Len(keybinds))
    /\ AfterRemap =>
          /\ Cardinality(Positions("UngrabKey")) = 1
          /\ \A u \in Positions("UngrabKey") :
                /\ requests[u].grab_window = Root
                /\ requests[u].key = GRAB_ANY
                /\ requests[u].modifiers = {MOD_ANY}

\* C8: the remap sequence run twice in a row with no server-side keymap
\* change in between: the second run leaves the grabs registered at the
\* server and the keycode cache of every binding as the first left them.
C8_RemapIdempotent ==
    [][(/\ pc = "wait"
        /\ lastEvent.type = "Remap"
        /\ keyboard.xkb_keymap.map = server
        /\ pc' = "loop"
        /\ IsRemap(lastEvent'))
       => (grabs' = grabs /\ keybinds' = keybinds)]_vars

C8_Witness ==
    /\ Returned
    /\ IsRemap(lastEvent)
    /\ lastEvent.after = "Remap"
    /\ grabs # {}
    /\ \E i \in 1..Len(keybinds) : Len(keybinds[i].keycodes) > 1

AfterPass == (Returned \/ Panicked) /\ (IsRemap(lastEvent) \/ lastEvent.type = "Startup")

\* C13: a GrabKey request the server rejects is fatal at once: it is the
\* last request of the pass, the pass panics instead of returning, and a
\* pass that returns has every one of its GrabKey requests accepted and
\* registered at the server.
C13_RejectionFatal ==
    AfterPass =>
        /\ \A i \in 1..Len(requests) :
              ~requests[i].accepted =>
                 /\ requests[i].op = "GrabKey"
                 /\ i = Len(requests)
                 /\ Panicked
        /\ Returned =>
              \A g \in Positions("GrabKey") :
                 /\ requests[g].accepted
                 /\ [key |-> requests[g].key, modifiers |-> requests[g].modifiers] \in grabs

C13_Witness ==
    /\ Panicked
    /\ IsRemap(lastEvent)
    /\ Len(requests) > 0
    /\ ~requests[Len(requests)].accepted
    /\ Cardinality(Positions("GrabKey")) + 1 < GrabCount(keybinds, keyboard, server)

\* C12: a core MappingNotify is handled as a remap trigger (ungrab, rebuild,
\* re-grab) and the dispatcher then goes on to the next event; it does not
\* end the program.
C12_MappingNotifyRemaps ==
    lastEvent.type = "MappingNotify" =>
        /\ Returned
        /\ Positions("UngrabKey") # {}
        /\ Positions("keymap_new_from_device") # {}

\* the Grab Set of a binding: its cached keycodes, each under the declared
\* mask combined with the four lock variants
GrabSet(keybind) ==
    {[key |-> k, modifiers |-> keybind.key_sequence.modifiers \cup locks] :
        k \in Cache(keybind), locks \in SUBSET {LOCK, NumLockBit}}

\* C14: whenever the dispatcher is blocked waiting for an event, the grabs
\* registered on the root window are exactly the union of the Grab Sets of
\* all bindings; right after a remap the cached keycodes are those the
\* rebuilt keymap resolves, so no grab of an earlier keymap is left.
C14_GrabbedWhileWaiting ==
    pc = "wait" =>
        /\ grabs = UNION {GrabSet(keybinds[i]) : i \in 1..Len(keybinds)}
        /\ lastEvent.type = "Remap" =>
              \A i \in 1..Len(keybinds) :
                 Cache(keybinds[i]) =
                    Carriers(GetKeyboardMapping(keyboard.xkb_keymap.map),
                             keybinds[i].key_sequence.keysym)

C14_Witness ==
    /\ pc = "wait"
    /\ lastEvent.type = "Remap"
    /\ keyboard.xkb_keymap.map = "plain"
    /\ grabs # {}
    /\ \A g \in grabs : g.key = MinKeycode /\ MOD3 \notin g.modifiers

\* a step that runs a grab pass: App::run up to the loop, or a remap handler
PassStep ==
    /\ pc \in {"start", "wait"}
    /\ IsRemap(lastEvent') \/ lastEvent'.type = "Startup"

\* C15: a grab pass that completes leaves in every binding's keycode cache
\* keysym_to_keycodes of its keysym under the mapping the server has at
\* that pass, and only a grab pass writes a cache: every other step
\* (KeyPress, StateNotify, any other event) leaves the registry as it was.
C15_CacheDerived ==
    [][/\ (PassStep /\ pc' = "loop") =>
             /\ Len(keybinds') = Len(keybinds)
             /\ \A i \in 1..Len(keybinds) :
                   /\ keybinds'[i].key_sequence = keybinds[i].key_sequence
                   /\ keybinds'[i].command = keybinds[i].command
                   /\ keybinds'[i].keycodes =
                         keysym_to_keycodes(GetKeyboardMapping(server'),
                                            keybinds[i].key_sequence.keysym)
       /\ ~PassStep => keybinds' = keybinds]_vars

C15_Witness ==
    /\ Returned
    /\ lastEvent.type = "MapNotify"
    /\ server = "layered"
    /\ Len(keybinds) = MaxBinds
    /\ \A i \in 1..Len(keybinds) : keybinds[i].keycodes = <<MaxKeycode, MinKeycode>>

\* C16: a StateNotify only folds the event's modifier / group components
\* into the xkb state: no request is sent (no GrabKey, no UngrabKey, no
\* keymap rebuild), the keymap is the one held before, and the registry,
\* every keycode cache and the grabs are unchanged.
C16_StateNotifyOnlyState ==
    [][(pc = "wait" /\ lastEvent'.type = "StateNotify") =>
          /\ pc' = "loop"
          /\ requests' = <<>>
          /\ keyboard' = [keyboard EXCEPT !.xkb_state.components = lastEvent'.components]
          /\ keyboard'.xkb_keymap = keyboard.xkb_keymap
          /\ keyboard'.xkb_state.keymap = keyboard.xkb_state.keymap
          /\ keybinds' = keybinds
          /\ grabs' = grabs]_vars

C16_Witness ==
    /\ Returned
    /\ lastEvent.type = "StateNotify"
    /\ lastEvent.components = Components({LOCK})
    /\ keyboard.xkb_state.components = Components({LOCK})
    /\ keyboard.xkb_keymap.map # server
    /\ grabs # {}

\* C17: within one grab pass no (keycode, modifier mask) pair is requested
\* twice for the same binding: two GrabKey requests for the same pair are
\* separated by the GetKeyboardMapping request that starts the next binding.
C17_NoDuplicateGrab ==
    AfterPass =>
        \A p, q \in Positions("GrabKey") :
            (/\ p < q
             /\ requests[p].key = requests[q].key
             /\ requests[p].modifiers = requests[q].modifiers)
            => \E m \in Positions("GetKeyboardMapping") : p < m /\ m < q

\* C18: the keymap and the xkb state of the Keyboard State are a pair built
\* together: the state is bound to the keymap held, both carry the device
\* id of the Keyboard State, and a rebuild requests the keymap and the state
\* one right after the other, with no other request in between.
C18_KeymapStatePaired ==
    /\ keyboard.xkb_state.keymap = keyboard.xkb_keymap
    /\ keyboard.xkb_keymap.device_id = keyboard.xkb_device_id
    /\ keyboard.xkb_state.device_id = keyboard.xkb_device_id
    /\ \A r \in Positions("keymap_new_from_device") :
          /\ r < Len(requests)
          /\ requests[r + 1].op = "state_new_from_device"
    /\ \A r \in Positions("state_new_from_device") :
          /\ r > 1
          /\ requests[r - 1].op = "keymap_new_from_device"

C18_Witness ==
    /\ Returned
    /\ lastEvent.type = "MapNotify"
    /\ lastEvent.after = "Remap"
    /\ keyboard.xkb_keymap.map = "layered"
    /\ keyboard.xkb_state.keymap.map = "layered"
    /\ keyboard.xkb_state.components = Components({LOCK})

\* C19: a NewKeyboardNotify whose change set does not include KEYCODES
\* changes nothing: no request is sent (no ungrab, no rebuild, no grab), and
\* the keycode caches, the keymap, the xkb state and the grabs are as before.
C19_NoKeycodesNoChange ==
    [][(/\ pc = "wait"
        /\ lastEvent'.type = "NewKeyboardNotify"
        /\ "KEYCODES" \notin lastEvent'.changed)
       => /\ pc' = "loop"
          /\ requests' = <<>>
          /\ keybinds' = keybinds
          /\ keyboard' = keyboard
          /\ grabs' = grabs]_vars

C19_Witness ==
    /\ Returned
    /\ lastEvent.type = "NewKeyboardNotify"
    /\ lastEvent.changed = {"GEOMETRY"}
    /\ keyboard.xkb_keymap.map # server
    /\ grabs # {}

\* C20: at a KeyPress the NumLock bit cleared from the event state is the
\* bit that was OR-ed into the lock variants of the grabs registered: every
\* grab is a declared mask combined with Lock and / or the bit the held
\* keymap resolves NumLock to, and a KeyPress whose keycode and state are
\* one of the registered grabs normalizes to the declared mask of a binding
\* and executes it.
C20_NumLockBitAgrees ==
    AfterKeyPress =>
        /\ \A g \in grabs :
              \E i \in 1..Len(keybinds) :
                 /\ g.key \in Cache(keybinds[i])
                 /\ g.modifiers \ {LOCK, NumLockBit} = keybinds[i].key_sequence.modifiers
                 /\ [key |-> g.key, modifiers |-> g.modifiers \cup {NumLockBit}] \in grabs
        /\ [key |-> lastEvent.detail, modifiers |-> lastEvent.state] \in grabs =>
              /\ Len(executed) = 1
              /\ keybinds[executed[1].command].key_sequence.modifiers = Normalized
              /\ lastEvent.state \ Normalized \subseteq {LOCK, NumLockBit}

C20_Witness ==
    /\ Returned
    /\ lastEvent.type = "KeyPress"
    /\ lastEvent.after = "Remap"
    /\ NumLockBit = MOD3
    /\ MOD3 \in lastEvent.state
    /\ [key |-> lastEvent.detail, modifiers |-> lastEvent.state] \in grabs
    /\ Len(executed) = 1

----------------------------------------------------------------------------
(* Properties of KeySequence::try_from (SpecParse) *)

\* the dash-free pieces a string is made of, read off the positions of its
\* dashes: the k-th piece lies between the (k-1)-th and the k-th dash
DashEnds(s) == {0, Len(s) + 1} \cup {i \in 1..Len(s) : s[i] = "-"}

Nth(S, k) == CHOOSE d \in S : Cardinality({e \in S : e < d}) = k - 1

TokensOf(s) ==
    [k \in 1..(Cardinality(DashEnds(s)) - 1) |->
        SubSeq(s, Nth(DashEnds(s), k) + 1, Nth(DashEnds(s), k + 1) - 1)]

IsLetterToken(t) == Len(t) = 1 /\ t[1] \in Uppercase

HasToken(ts, t) == \E i \in 1..Len(ts) : ts[i] = t

Parsed == parsed # NotParsed

\* C9: the string is split on '-'; a one-character uppercase token is a
\* modifier code (S Shift, C Control, M Mod4, any other letter fails); every
\* other token is a keysym name and fails when it names no keysym; a string
\* with no keysym token fails.  "C-x" gives {x, {Control}}, "C-S-s" gives
\* {s, {Shift, Control}}, "X-z" and "C-?" are errors.
C9_ParseContract ==
    Parsed =>
        LET ts == TokensOf(value)
            names == {i \in 1..Len(ts) : ~IsLetterToken(ts[i])}
            badModifier == \E i \in 1..Len(ts) :
                              IsLetterToken(ts[i]) /\ ts[i][1] \notin {"S", "C", "M"}
            badKeysym == \E i \in names : keysym_from_name(ts[i]) = NoSymbol
            expectedMods == (IF HasToken(ts, <<"S">>) THEN {SHIFT} ELSE {})
                            \cup (IF HasToken(ts, <<"C">>) THEN {CONTROL} ELSE {})
                            \cup (IF HasToken(ts, <<"M">>) THEN {MOD4} ELSE {})
        IN /\ parsed.ok <=> ~(badModifier \/ badKeysym \/ names = {})
           /\ parsed.ok =>
                /\ parsed.modifiers = expectedMods
                /\ \E i \in names : parsed.keysym = keysym_from_name(ts[i])
           /\ value = <<"C", "-", "x">> => parsed = Ok("x", {CONTROL})
           /\ value = <<"C", "-", "S", "-", "s">> => parsed = Ok("s", {SHIFT, CONTROL})
           /\ value = <<"X", "-", "z">> => ~parsed.ok
           /\ value = <<"C", "-", "?">> => ~parsed.ok

C9_Witness ==
    /\ value = <<"C", "-", "S", "-", "s">>
    /\ parsed = Ok("s", {SHIFT, CONTROL})

Orderings(n) == {p \in [1..n -> 1..n] : \A i, j \in 1..n : p[i] = p[j] => i = j}

SameOutcome(a, b) == a.ok = b.ok /\ (a.ok => a = b)

\* C10: the parse result does not depend on token order: the string and
\* every permutation of its tokens, dash-joined, parse to the same outcome
\* (equal KeySequence, or an error in both cases).
C10_OrderIndependent ==
    Parsed =>
        LET ts == TokensOf(value)
        IN \A p \in Orderings(Len(ts)) :
              SameOutcome(parsed, try_from(Join([i \in 1..Len(ts) |-> ts[p[i]]])))

\* C11: a KeySequence is produced only from a string that holds exactly
\* one keysym token: with none the parse fails, and with two or more (as in
\* "C-x-y") it fails as well.
C11_OneKeysymToken ==
    Parsed =>
        LET ts == TokensOf(value)
        IN parsed.ok => Cardinality({i \in 1..Len(ts) : ~IsLetterToken(ts[i])}) = 1

----------------------------------------------------------------------------
(* Properties of keysym_to_keycodes (SpecResolve) *)

IsAscending(v) == \A i \in 1..(Len(v) - 1) : v[i] < v[i + 1]

\* C7: keysym_to_keycodes returns exactly the keycodes for which at least
\* one column maps to the keysym, each once, in ascending keycode order.
C7_ExactAscending ==
    resolved.done =>
        /\ {resolved.keycodes[i] : i \in 1..Len(resolved.keycodes)} = Carriers(mapping, wanted)
        /\ IsAscending(resolved.keycodes)

====
